---- MODULE Spec2Model ----
(***************************************************************************)
(* Model of the RAG backend: the upload endpoint and its background job    *)
(* (app/routers/api.py), the job tracker (app/services/db_service.py) and  *)
(* the per-user vector store gateway (app/services/vector_store.py).       *)
(*                                                                         *)
(* Spec         the HTTP application: upload_pdf and process_pdf_upload.   *)
(* GatewaySpec  the VectorStore methods under concurrent callers, on the   *)
(*              two instances the application builds (api.py:18 and        *)
(*              chat_service.py:15).                                       *)
(* JobStoreSpec the job tracker's functions called with ids of the         *)
(*              caller's choice.                                           *)
(* ChatSpec     ChatService.ask under concurrent chat requests.            *)
(* FnSpec       the pure functions applied to drawn inputs.                *)
(***************************************************************************)
EXTENDS Integers, Sequences, FiniteSets, TLC

\* ------------------------------------------------------------------ bounds
NumUploads == 2          \* upload requests
MaxChunks == 1           \* chunks the splitter may produce from one document
MaxCalls == 4            \* gateway calls made in one run
MaxRecords == 2          \* job records inserted by direct calls of the tracker
NumChats == 2            \* chat requests
MaxIdLen == 2            \* characters of a user id given to a pure function

\* --------------------------------------------------------- program constants
BatchSize == 100         \* api.py:66  batch_size=100
TopK == 3                \* vector_store.py:76 / routers/models.py:39
ScoreThreshold == 60     \* vector_store.py:91  score_threshold=0.6, in hundredths
Progress0 == 0           \* db_service.py:39
Progress10 == 10         \* api.py:57
Progress30 == 30         \* api.py:62
Progress90 == 90         \* api.py:67
Progress100 == 100       \* api.py:78

Requests == 1..NumUploads
ChatRequests == 1..NumChats
\* Two threads of the server's thread pool run the gateway's methods.
Threads == {1, 2}

\* ------------------------------------------------------------ user ids, names
\* A string is a sequence of one-character strings.
Alnum == {"a", "b"}
Space == {" "}
IsSafe(c) == c \in Alnum \/ c \in {"_", "-"}

\* str.strip(): leading and trailing whitespace removed (api.py:116,119).
RECURSIVE LStrip(_)
LStrip(s) == IF s # <<>> /\ Head(s) \in Space THEN LStrip(Tail(s)) ELSE s
RECURSIVE RStrip(_)
RStrip(s) == IF s # <<>> /\ s[Len(s)] \in Space
             THEN RStrip(SubSeq(s, 1, Len(s) - 1)) ELSE s
Strip(s) == RStrip(LStrip(s))

\* vector_store.py:21: every character outside [alnum _ -] becomes "_".
safe_user_id(user_id) ==
    [i \in 1..Len(user_id) |-> IF IsSafe(user_id[i]) THEN user_id[i] ELSE "_"]

\* One collection for every user (the single collection of config.py:12).
SingleCollectionName(user_id) == <<"rag_backend_data">>

\* A name built from the first character of the id only.
PrefixCollectionName(user_id) ==
    <<"user_">> \o (IF user_id = <<>> THEN <<>> ELSE <<safe_user_id(user_id)[1]>>)
                \o <<"_data">>

\* vector_store.py:19-22
get_user_collection_name(user_id) ==
    <<"user_">> \o safe_user_id(user_id) \o <<"_data">>

\* User ids of the gateway's callers: two collide after sanitising.
UserIds == { <<"a", ".">>, <<"a", "_">>, <<"b">> }
\* Raw user_id form values of the upload endpoint.
FormUserIds == { <<" ", "b">>, <<" ">>, <<>> }
\* Upload filenames as <<stem, extension>>.
Filenames == { <<"Doc", ".PDF">>, <<"notes", ".txt">> }
Lower(ext) == IF ext = ".PDF" THEN ".pdf" ELSE ext
EndsWithPdf(fname) == Lower(fname[2]) = ".pdf"

AllUserIds == UserIds \cup {Strip(u) : u \in FormUserIds}
CollectionNames == {get_user_collection_name(u) : u \in AllUserIds}

\* ------------------------------------------------------------------ state
VARIABLES
    pc,               \* per upload: position in upload_pdf / process_pdf_upload
    req,              \* per upload: the form's user_id and filename, and the
                      \* user_id after strip() once accepted
    local,            \* per upload: locals of process_pdf_upload
    jobs_collection,  \* db["upload_jobs"]: documents in insertion order
    files,            \* temp files that exist on disk (named by upload)
    removed,          \* per upload: successful os.remove calls on its temp file
    trace,            \* per upload: the values its job's status has taken
    collections,      \* Qdrant: names of the collections that exist
    points,           \* Qdrant: per collection name, the chunks stored
    user_stores,      \* per VectorStore instance: keys of _user_stores
    calls,            \* per gateway thread: the method call in progress
    ncalls,           \* gateway calls made so far
    chat_collection,  \* db["chat_history"]: documents in insertion order
    asks,             \* per chat request: position and locals of ChatService.ask
    fn                \* the last direct call of a function and what it gave

vars == <<pc, req, local, jobs_collection, files, removed, trace,
          collections, points, user_stores, calls, ncalls,
          chat_collection, asks, fn>>
appVars == <<pc, req, local, jobs_collection, files, removed, trace>>
gwVars == <<collections, points, user_stores, calls, ncalls>>
chatVars == <<chat_collection, asks>>

Instances == {"api", "chat"}   \* api.py:18 vector_store; chat_service.py:15

\* An optional value: {} is None / key absent, {v} is v.
None == {}
Some(v) == {v}

NoReq == [user_id |-> <<>>, filename |-> <<>>, form_user_id |-> <<>>]
NoLocal == [exc |-> None, documents |-> None, inserted |-> None,
            batches |-> <<>>, escaped |-> FALSE]
\* A gateway call: the method, its arguments, its position, the sizes of the
\* upsert calls it has issued, and at the end its return value (count, docs or
\* deleted) or the error it raised. after_delete is the number of the call
\* when it is an ingestion that began right after a delete for the same user
\* returned on its thread, with no other call in progress; 0 otherwise.
IdleCall == [pc |-> "idle", op |-> "none", inst |-> "none", user_id |-> <<>>,
             query |-> "none", top_k |-> 0, n |-> 0, absent |-> FALSE, batches |-> <<>>, count |-> None,
             docs |-> None, deleted |-> None, err |-> "none",
             after_delete |-> 0]
\* A call of ChatService.ask: its arguments, its position, its locals, the
\* number of save_message calls that succeeded, and at the end the answer it
\* returned or the error that left it.
IdleAsk == [pc |-> "idle", user_id |-> <<>>, query |-> "none", docs |-> None,
            response |-> None, saved |-> 0, answer |-> None, err |-> "none"]
NoFn == [op |-> "none"]


\* ------------------------------------------------- job tracker (db_service.py)
DbErrorMsg == "ServerSelectionTimeoutError"

\* db_service.py:30-43
create_upload_job(coll, job_id, user_id, filename) ==
    Append(coll, [job_id |-> job_id, user_id |-> user_id, filename |-> filename,
                  status |-> "queued", progress_percent |-> Some(Progress0),
                  collection_name |-> None, inserted_chunks |-> None,
                  error_message |-> None])

\* The first document matching {"job_id": job_id}, 0 when there is none.
FindOne(coll, job_id) ==
    LET hits == {i \in 1..Len(coll) : coll[i].job_id = job_id}
    IN IF hits = {} THEN 0 ELSE CHOOSE i \in hits : \A k \in hits : i <= k

\* Python truthiness of an optional string argument: None and "" are falsy.
TruthyName(opt) == opt # None /\ \A v \in opt : v # <<>>
TruthyMsg(opt) == opt # None /\ \A v \in opt : v # ""

\* db_service.py:45-71: $set of status and of the supplied optional fields on
\* the first matching document; nothing when no document matches.
update_job_status(coll, job_id, status, collection_name, inserted_chunks, error_message, progress_percent) ==
    LET i == FindOne(coll, job_id)
    IN IF i = 0 THEN coll
       ELSE [coll EXCEPT ![i] =
               [@ EXCEPT
                  !.status = status,
                  !.collection_name =
                      IF TruthyName(collection_name) THEN collection_name ELSE @,
                  !.inserted_chunks =
                      IF inserted_chunks # None THEN inserted_chunks ELSE @,
                  !.error_message =
                      IF TruthyMsg(error_message) THEN error_message ELSE @,
                  !.progress_percent =
                      IF progress_percent # None THEN progress_percent ELSE @]]

\* db_service.py:73-78: the first matching document, or None.
get_job_status(coll, job_id) ==
    LET i == FindOne(coll, job_id) IN IF i = 0 THEN None ELSE Some(coll[i])

StatusOf(coll, job_id) ==
    LET j == get_job_status(coll, job_id)
    IN IF j = None THEN "none" ELSE (CHOOSE d \in j : TRUE).status

\* The status values a job has taken, one entry per change.
Observe(tr, coll, job_id) ==
    LET st == StatusOf(coll, job_id)
    IN IF st = "none" \/ (tr # <<>> /\ tr[Len(tr)] = st) THEN tr ELSE Append(tr, st)

\* --------------------------------------- vector store gateway (vector_store.py)
\* The shared state a gateway step reads and writes.
Shared == [collections |-> collections, points |-> points, stores |-> user_stores]

\* The chunks add_documents builds for a document of n chunks (56-63).
ChunksOf(user_id, n) == {[owner |-> user_id, idx |-> i] : i \in 1..n}

Raise(c, e) == [c EXCEPT !.pc = "done", !.err = e]
Goto(c, p) == [c EXCEPT !.pc = p]

\* The queries of the chat requests and the similarity (in hundredths) the
\* store computes between a query and a chunk.
Queries == {"q1", "q2"}
ScoreOf(q, d) ==
    LET base == CASE q = "q1" /\ d.owner = <<"a", ".">> -> 90
                  [] q = "q1" /\ d.owner = <<"a", "_">> -> 50
                  [] q = "q1" -> 70
                  [] q = "q2" /\ d.owner = <<"a", ".">> -> 80
                  [] q = "q2" /\ d.owner = <<"a", "_">> -> 90
                  [] OTHER -> 40
    IN base - 10 * (d.idx - 1)

\* The chunks of S from the most to the least similar to q.
RECURSIVE Ranked(_, _)
Ranked(S, q) ==
    IF S = {} THEN <<>>
    ELSE LET best == CHOOSE d \in S : \A e \in S : ScoreOf(q, d) >= ScoreOf(q, e)
         IN <<[doc |-> best, score |-> ScoreOf(q, best)]>> \o Ranked(S \ {best}, q)

AtLeast(seq, threshold) ==
    LET Keep(x) == x.score >= threshold IN SelectSeq(seq, Keep)
Take(seq, k) == SubSeq(seq, 1, IF Len(seq) < k THEN Len(seq) ELSE k)

\* The store's similarity_search_with_score(query, k, score_threshold) on a
\* collection holding the chunks S (vector_store.py:88-92): the k best chunks
\* among those scoring at least the threshold, best first.
similarity_search_with_score(S, query, k, score_threshold) ==
    Take(AtLeast(Ranked(S, query), score_threshold), k)

\* An add_documents that goes to the handle whatever the number of chunks.
add_documents_split_no_return(c, sh) == [call |-> Goto(c, "gs_check"), sh |-> sh]

\* vector_store.py:54-66, up to the _get_user_vector_store call.
add_documents_split(c, sh) ==
    IF c.n = 0
    THEN [call |-> [c EXCEPT !.pc = "done", !.count = Some(0)], sh |-> sh]
    ELSE [call |-> Goto(c, "gs_check"), sh |-> sh]

\* vector_store.py:68-74: the upsert through the handle, and the return.
add_documents_upsert(c, sh) ==
    LET name == get_user_collection_name(c.user_id)
    IN IF name \notin sh.collections
       THEN [call |-> Raise(c, "NotFound"), sh |-> sh]
       ELSE [call |-> [c EXCEPT !.pc = "done", !.count = Some(c.n),
                                !.batches = Append(@, c.n)],
             sh |-> [sh EXCEPT !.points[name] = @ \cup ChunksOf(c.user_id, c.n)]]

\* vector_store.py:45: the membership test.
get_user_vector_store_check(c, sh) ==
    IF c.user_id \notin sh.stores[c.inst]
    THEN [call |-> Goto(c, "ens_list"), sh |-> sh]
    ELSE [call |-> Goto(c, "gs_ret"), sh |-> sh]

\* vector_store.py:29-32: list the collections.
ensure_user_collection_exists_list(c, sh) ==
    IF get_user_collection_name(c.user_id) \notin sh.collections
    THEN [call |-> Goto(c, "ens_create"), sh |-> sh]
    ELSE [call |-> Goto(c, "gs_set"), sh |-> sh]

\* vector_store.py:33-41: create_collection; Qdrant rejects a name that exists.
ensure_user_collection_exists_create(c, sh) ==
    LET name == get_user_collection_name(c.user_id)
    IN IF name \in sh.collections
       THEN [call |-> Raise(c, "AlreadyExists"), sh |-> sh]
       ELSE [call |-> Goto(c, "gs_set"),
             sh |-> [sh EXCEPT !.collections = @ \cup {name},
                               !.points[name] = {}]]

\* vector_store.py:47-51: store the handle under the user id.
get_user_vector_store_set(c, sh) ==
    [call |-> Goto(c, "gs_ret"),
     sh |-> [sh EXCEPT !.stores[c.inst] = @ \cup {c.user_id}]]

\* vector_store.py:52: the lookup that returns the handle.
get_user_vector_store_ret(c, sh) ==
    IF c.user_id \notin sh.stores[c.inst]
    THEN [call |-> Raise(c, "KeyError"), sh |-> sh]
    ELSE [call |-> Goto(c, IF c.op = "add_documents" THEN "add_upsert"
                                                     ELSE "ret_search"),
          sh |-> sh]

\* A retrieve that goes to the handle without looking for the collection.
retrieve_list_unchecked(c, sh) ==
    [call |-> [c EXCEPT !.pc = "gs_check",
                        !.absent = get_user_collection_name(c.user_id)
                                       \notin sh.collections],
     sh |-> sh]

\* vector_store.py:76-85: the existence check of retrieve.
retrieve_list(c, sh) ==
    LET gone == get_user_collection_name(c.user_id) \notin sh.collections
    IN IF gone
       THEN [call |-> [c EXCEPT !.pc = "done", !.absent = TRUE, !.docs = Some(<<>>)],
             sh |-> sh]
       ELSE [call |-> [c EXCEPT !.pc = "gs_check", !.absent = FALSE], sh |-> sh]

\* A search that passes no score threshold to the store.
retrieve_search_no_threshold(c, sh) ==
    LET name == get_user_collection_name(c.user_id)
        results == similarity_search_with_score(sh.points[name], c.query,
                                                c.top_k, 0)
    IN IF name \notin sh.collections
       THEN [call |-> Raise(c, "NotFound"), sh |-> sh]
       ELSE [call |-> [c EXCEPT !.pc = "done",
                         !.docs = Some([i \in 1..Len(results) |->
                                          [chunk |-> results[i].doc,
                                           score |-> results[i].score]])],
             sh |-> sh]

\* vector_store.py:88-95: the search through the handle with k=top_k and
\* score_threshold=0.6, and the list built from its results in their order.
retrieve_search(c, sh) ==
    LET name == get_user_collection_name(c.user_id)
        results == similarity_search_with_score(sh.points[name], c.query,
                                                c.top_k, ScoreThreshold)
    IN IF name \notin sh.collections
       THEN [call |-> Raise(c, "NotFound"), sh |-> sh]
       ELSE [call |-> [c EXCEPT !.pc = "done",
                         !.docs = Some([i \in 1..Len(results) |->
                                          [chunk |-> results[i].doc,
                                           score |-> results[i].score]])],
             sh |-> sh]

\* vector_store.py:99-103 and 110: the existence check of delete.
delete_user_collection_list(c, sh) ==
    LET gone == get_user_collection_name(c.user_id) \notin sh.collections
    IN IF gone
       THEN [call |-> [c EXCEPT !.pc = "done", !.absent = TRUE,
                                !.deleted = Some(FALSE)], sh |-> sh]
       ELSE [call |-> [c EXCEPT !.pc = "del_delete", !.absent = FALSE], sh |-> sh]

\* vector_store.py:104: delete_collection (no error when the name is gone).
delete_user_collection_delete(c, sh) ==
    LET name == get_user_collection_name(c.user_id)
    IN [call |-> Goto(c, "del_in"),
        sh |-> [sh EXCEPT !.collections = @ \ {name}, !.points[name] = {}]]

\* vector_store.py:106: the membership test before the eviction.
delete_user_collection_in(c, sh) ==
    IF c.user_id \in sh.stores[c.inst]
    THEN [call |-> Goto(c, "del_del"), sh |-> sh]
    ELSE [call |-> [c EXCEPT !.pc = "done", !.deleted = Some(TRUE)], sh |-> sh]

\* vector_store.py:107-109: del self._user_stores[user_id]; return True.
delete_user_collection_del(c, sh) ==
    IF c.user_id \notin sh.stores[c.inst]
    THEN [call |-> Raise(c, "KeyError"), sh |-> sh]
    ELSE [call |-> [c EXCEPT !.pc = "done", !.deleted = Some(TRUE)],
          sh |-> [sh EXCEPT !.stores[c.inst] = @ \ {c.user_id}]]

\* One step of a gateway call at position c.pc.
GatewayStep(c, sh) ==
    CASE c.pc = "add_split"  -> add_documents_split(c, sh)
      [] c.pc = "add_upsert" -> add_documents_upsert(c, sh)
      [] c.pc = "gs_check"   -> get_user_vector_store_check(c, sh)
      [] c.pc = "ens_list"   -> ensure_user_collection_exists_list(c, sh)
      [] c.pc = "ens_create" -> ensure_user_collection_exists_create(c, sh)
      [] c.pc = "gs_set"     -> get_user_vector_store_set(c, sh)
      [] c.pc = "gs_ret"     -> get_user_vector_store_ret(c, sh)
      [] c.pc = "ret_list"   -> retrieve_list(c, sh)
      [] c.pc = "ret_search" -> retrieve_search(c, sh)
      [] c.pc = "del_list"   -> delete_user_collection_list(c, sh)
      [] c.pc = "del_delete" -> delete_user_collection_delete(c, sh)
      [] c.pc = "del_in"     -> delete_user_collection_in(c, sh)
      [] c.pc = "del_del"    -> delete_user_collection_del(c, sh)
      [] OTHER               -> [call |-> c, sh |-> sh]

\* A call run to its end without interleaving (one caller's add_documents).
RECURSIVE RunCall(_, _)
RunCall(c, sh) ==
    IF c.pc = "done" THEN [call |-> c, sh |-> sh]
    ELSE LET s == GatewayStep(c, sh) IN RunCall(s.call, s.sh)

\* The top_k values of the chat requests: the default and a smaller one
\* (routers/models.py:39).
TopKs == {1, TopK}

NewRetrieve(inst, user_id, query, top_k) ==
    [IdleCall EXCEPT !.op = "retrieve", !.inst = inst, !.user_id = user_id,
                     !.query = query, !.top_k = top_k, !.pc = "ret_list"]

NewCall(op, inst, user_id, n) ==
    [IdleCall EXCEPT !.op = op, !.inst = inst, !.user_id = user_id, !.n = n,
        !.pc = CASE op = "add_documents" -> "add_split"
                 [] op = "retrieve" -> "ret_list"
                 [] OTHER -> "del_list"]

\* --------------------------------------------- the upload endpoint (api.py)
Init ==
    /\ pc = [r \in Requests |-> "idle"]
    /\ req = [r \in Requests |-> NoReq]
    /\ local = [r \in Requests |-> NoLocal]
    /\ jobs_collection = <<>>
    /\ files = {}
    /\ removed = [r \in Requests |-> 0]
    /\ trace = [r \in Requests |-> <<>>]
    /\ collections = {}
    /\ points = [name \in CollectionNames |-> {}]
    /\ user_stores = [i \in Instances |-> {}]
    /\ calls = [t \in Threads |-> IdleCall]
    /\ ncalls = 0
    /\ chat_collection = <<>>
    /\ asks = [k \in ChatRequests |-> IdleAsk]
    /\ fn = NoFn

\* A validation that does not look at the user id.
AcceptedAnyUserId(fname, user_id) == EndsWithPdf(fname)

\* api.py:113-117: the request is accepted when the filename ends in .pdf
\* (case-insensitively) and the user id is not empty after strip().
Accepted(fname, user_id) == EndsWithPdf(fname) /\ user_id # <<>> /\ Strip(user_id) # <<>>

\* api.py:112-125: validation, strip, uuid4, NamedTemporaryFile(delete=False).
\* Upload r gets job id r and temp file r (uuid4 and mkstemp give fresh names);
\* uploads are numbered in the order they arrive.
upload_pdf_validate(r) ==
    /\ pc[r] = "idle"
    /\ IF r = 1 THEN TRUE ELSE pc[r - 1] # "idle"
    /\ \E fname \in Filenames, user_id \in FormUserIds :
         IF Accepted(fname, user_id)
         THEN /\ req' = [req EXCEPT ![r] = [user_id |-> Strip(user_id),
                                            filename |-> fname,
                                            form_user_id |-> user_id]]
              /\ files' = files \cup {r}
              /\ pc' = [pc EXCEPT ![r] = "L127"]
         ELSE /\ req' = [req EXCEPT ![r] = [user_id |-> <<>>,
                                            filename |-> fname,
                                            form_user_id |-> user_id]]
              /\ pc' = [pc EXCEPT ![r] = "rejected400"]
              /\ UNCHANGED files
    /\ UNCHANGED <<local, jobs_collection, removed, trace, gwVars, chatVars, fn>>

\* An upload whose background task is started before the job is created.
upload_pdf_read_starts_task(r) ==
    /\ pc[r] = "L127"
    /\ pc' = [pc EXCEPT ![r] = "L57"]
    /\ UNCHANGED <<req, local, jobs_collection, files, removed, trace, gwVars, chatVars, fn>>

\* api.py:126-133: read the upload and write it to the temp file; a failure
\* is answered with 500.
upload_pdf_read(r) ==
    /\ pc[r] = "L127"
    /\ \E ok \in BOOLEAN :
         pc' = [pc EXCEPT ![r] = IF ok THEN "L136" ELSE "error500"]
    /\ UNCHANGED <<req, local, jobs_collection, files, removed, trace, gwVars, chatVars, fn>>

\* api.py:136: create the job record; an exception of insert_one leaves
\* upload_pdf.
upload_pdf_create(r) ==
    /\ pc[r] = "L136"
    /\ \E dbOk \in BOOLEAN :
         IF dbOk
         THEN /\ jobs_collection' =
                    create_upload_job(jobs_collection, r, req[r].user_id,
                                      req[r].filename)
              /\ trace' = [trace EXCEPT ![r] = Observe(@, jobs_collection', r)]
              /\ pc' = [pc EXCEPT ![r] = "L139"]
         ELSE /\ pc' = [pc EXCEPT ![r] = "error500"]
              /\ UNCHANGED <<jobs_collection, trace>>
    /\ UNCHANGED <<req, local, files, removed, gwVars, chatVars, fn>>

\* api.py:139-157: schedule process_pdf_upload and return the response; the
\* background task starts after the response.
upload_pdf_respond(r) ==
    /\ pc[r] = "L139"
    /\ pc' = [pc EXCEPT ![r] = "L57"]
    /\ UNCHANGED <<req, local, jobs_collection, files, removed, trace, gwVars, chatVars, fn>>

\* ------------------------------------------- the background job (api.py:50-97)
TypeErrorMsg == "add_documents() got an unexpected keyword argument 'batch_size'"
ExtractErrors == {"EmptyFileError", ""}

\* What pdf_to_documents does (api.py:61): a document of n chunks, or an error.
ExtractOutcomes ==
    {[ok |-> TRUE, n |-> n, msg |-> ""] : n \in 0..MaxChunks}
      \cup {[ok |-> FALSE, n |-> 0, msg |-> m] : m \in ExtractErrors}

\* vector_store.py:54: def add_documents(self, user_id, documents).
AddDocumentsParams == {"user_id", "documents"}
\* api.py:66: add_documents(user_id=..., documents=..., batch_size=100).
AddDocumentsKwargs == {"user_id", "documents", "batch_size"}
\* A Python call with keyword arguments binds when every keyword is a parameter.
Binds(kwargs, params) == kwargs \subseteq params

TaskPcs == {"L57", "L61", "L62", "L66", "L67", "L73", "L85", "L92"}

\* The state one upload's job reads and writes.
JobState(r) == [pc |-> pc[r], local |-> local[r], jobs |-> jobs_collection,
                files |-> files, removed |-> removed[r], sh |-> Shared]

\* An exception raised inside the try block (api.py:55-82) enters the handler.
Except(s, msg) == [s EXCEPT !.pc = "L85", !.local.exc = Some(msg)]

\* update_job_status called inside the try block: the write, or its exception.
TryUpdate(s, r, dbOk, status, cname, ins, pct, next) ==
    IF dbOk
    THEN [s EXCEPT !.pc = next,
                   !.jobs = update_job_status(s.jobs, r, status, cname, ins,
                                              None, Some(pct))]
    ELSE Except(s, DbErrorMsg)

\* api.py:66: the add_documents call, on the api instance.
CallAddDocuments(s, r) ==
    IF ~Binds(AddDocumentsKwargs, AddDocumentsParams)
    THEN Except(s, TypeErrorMsg)
    ELSE LET n == CHOOSE k \in s.local.documents : TRUE
             end == RunCall(NewCall("add_documents", "api", req[r].user_id, n),
                            s.sh)
         IN IF end.call.err # "none"
            THEN [Except(s, end.call.err) EXCEPT !.sh = end.sh]
            ELSE [s EXCEPT !.pc = "L67", !.sh = end.sh,
                           !.local.inserted = end.call.count,
                           !.local.batches = end.call.batches]

\* A handler that puts the job back in the queue instead of failing it.
HandlerRequeues(s, r, dbOk) ==
    IF dbOk
    THEN [s EXCEPT !.pc = "L92",
                   !.jobs = update_job_status(s.jobs, r, "queued", None, None,
                                              s.local.exc, None)]
    ELSE [s EXCEPT !.pc = "L92", !.local.escaped = TRUE]

\* A handler that records the message and leaves the status as it is.
HandlerKeepsStatus(s, r, dbOk) ==
    IF dbOk
    THEN [s EXCEPT !.pc = "L92",
                   !.jobs = update_job_status(s.jobs, r, StatusOf(s.jobs, r),
                                              None, None, s.local.exc, None)]
    ELSE [s EXCEPT !.pc = "L92", !.local.escaped = TRUE]

\* api.py:83-89: the handler writes status failed and the message; an
\* exception of that write leaves process_pdf_upload after the finally block.
Handler(s, r, dbOk) ==
    IF dbOk
    THEN [s EXCEPT !.pc = "L92",
                   !.jobs = update_job_status(s.jobs, r, "failed", None, None,
                                              s.local.exc, None)]
    ELSE [s EXCEPT !.pc = "L92", !.local.escaped = TRUE]

\* api.py:90-97: remove the temp file when it exists.
Finally(s, r) ==
    IF r \in s.files
    THEN [s EXCEPT !.pc = "done", !.files = @ \ {r}, !.removed = @ + 1]
    ELSE [s EXCEPT !.pc = "done"]

\* One statement of process_pdf_upload for upload r; dbOk says whether a
\* job-store write succeeds, ext what the extraction gives.
TaskStep(s, r, dbOk, ext) ==
    CASE s.pc = "L57" ->
           TryUpdate(s, r, dbOk, "processing", None, None, Progress10, "L61")
      [] s.pc = "L61" ->
           IF ext.ok THEN [s EXCEPT !.pc = "L62", !.local.documents = Some(ext.n)]
           ELSE Except(s, ext.msg)
      [] s.pc = "L62" ->
           TryUpdate(s, r, dbOk, "processing", None, None, Progress30, "L66")
      [] s.pc = "L66" -> CallAddDocuments(s, r)
      [] s.pc = "L67" ->
           TryUpdate(s, r, dbOk, "processing", None, None, Progress90, "L73")
      [] s.pc = "L73" ->
           TryUpdate(s, r, dbOk, "completed",
                     Some(get_user_collection_name(req[r].user_id)),
                     s.local.inserted, Progress100, "L92")
      [] s.pc = "L85" -> Handler(s, r, dbOk)
      [] s.pc = "L92" -> Finally(s, r)
      [] OTHER -> s

\* The inputs a statement reads: only a job-store write can fail, only the
\* extraction draws a document.
DbOutcomes(p) == IF p \in {"L57", "L62", "L67", "L73", "L85"} THEN BOOLEAN ELSE {TRUE}
ExtOutcomes(p) == IF p = "L61" THEN ExtractOutcomes
                  ELSE {[ok |-> TRUE, n |-> 0, msg |-> ""]}

process_pdf_upload(r) ==
    /\ pc[r] \in TaskPcs
    /\ \E dbOk \in DbOutcomes(pc[r]), ext \in ExtOutcomes(pc[r]) :
         LET s == TaskStep(JobState(r), r, dbOk, ext)
         IN /\ pc' = [pc EXCEPT ![r] = s.pc]
            /\ local' = [local EXCEPT ![r] = s.local]
            /\ jobs_collection' = s.jobs
            /\ files' = s.files
            /\ removed' = [removed EXCEPT ![r] = s.removed]
            /\ trace' = [trace EXCEPT ![r] = Observe(@, s.jobs, r)]
            /\ collections' = s.sh.collections
            /\ points' = s.sh.points
            /\ user_stores' = s.sh.stores
    /\ UNCHANGED <<req, calls, ncalls, chatVars, fn>>

Next ==
    \E r \in Requests :
        \/ upload_pdf_validate(r)
        \/ upload_pdf_read(r)
        \/ upload_pdf_create(r)
        \/ upload_pdf_respond(r)
        \/ process_pdf_upload(r)

Spec == Init /\ [][Next]_vars

\* ------------------------------- the gateway under concurrent callers
\* Ingestion and deletion go through the api instance (api.py:66, api.py:192),
\* retrieval through the instance of the chat service (chat_service.py:35).
CallInputs ==
    {NewCall("add_documents", "api", u, n) : u \in UserIds, n \in 0..MaxChunks}
      \cup {NewRetrieve("chat", u, q, k) : u \in UserIds, q \in Queries, k \in TopKs}
      \cup {NewCall("delete_user_collection", "api", u, 0) : u \in UserIds}

\* Thread t takes the next step of its call.
Advance(t) ==
    LET s == GatewayStep(calls[t], Shared)
    IN /\ calls' = [calls EXCEPT ![t] = s.call]
       /\ collections' = s.sh.collections
       /\ points' = s.sh.points
       /\ user_stores' = s.sh.stores
       /\ UNCHANGED <<appVars, ncalls, chatVars, fn>>

Free(t) == calls[t].pc \in {"idle", "done"}

\* A free thread of the pool (the lowest one) enters a method of VectorStore;
\* the result of its previous call has been taken by then.
Call(t) ==
    /\ Free(t)
    /\ \A o \in Threads : o < t => ~Free(o)
    /\ ncalls < MaxCalls
    /\ ncalls' = ncalls + 1
    /\ \E c \in CallInputs :
         calls' = [calls EXCEPT ![t] =
                     IF /\ c.op = "add_documents"
                        /\ calls[t].op = "delete_user_collection"
                        /\ calls[t].pc = "done"
                        /\ calls[t].err = "none"
                        /\ calls[t].user_id = c.user_id
                        /\ \A o \in Threads : Free(o)
                     THEN [c EXCEPT !.after_delete = ncalls + 1]
                     ELSE c]
    /\ UNCHANGED <<appVars, collections, points, user_stores, chatVars, fn>>

add_documents(t) ==
    /\ calls[t].pc \in {"add_split", "add_upsert"}
    /\ Advance(t)

get_user_vector_store(t) ==
    /\ calls[t].pc \in {"gs_check", "gs_set", "gs_ret"}
    /\ Advance(t)

ensure_user_collection_exists(t) ==
    /\ calls[t].pc \in {"ens_list", "ens_create"}
    /\ Advance(t)

retrieve(t) ==
    /\ calls[t].pc \in {"ret_list", "ret_search"}
    /\ Advance(t)

delete_user_collection(t) ==
    /\ calls[t].pc \in {"del_list", "del_delete", "del_in", "del_del"}
    /\ Advance(t)

GatewayNext ==
    \E t \in Threads :
        \/ Call(t)
        \/ add_documents(t)
        \/ get_user_vector_store(t)
        \/ ensure_user_collection_exists(t)
        \/ retrieve(t)
        \/ delete_user_collection(t)

GatewaySpec == Init /\ [][GatewayNext]_vars

\* ------------------------------- the job tracker called directly
\* The arguments process_pdf_upload gives update_job_status (api.py:57, 73-79,
\* 85-89); str(e) of the handler may be the empty string.
UpdateInputs ==
    {[status |-> "processing", collection_name |-> None,
      inserted_chunks |-> None, error_message |-> None,
      progress_percent |-> Some(Progress10)],
     [status |-> "completed", collection_name |-> Some(<<"user_", "b", "_data">>),
      inserted_chunks |-> Some(1), error_message |-> None,
      progress_percent |-> Some(Progress100)],
     [status |-> "failed", collection_name |-> None,
      inserted_chunks |-> None, error_message |-> Some(DbErrorMsg),
      progress_percent |-> None],
     [status |-> "failed", collection_name |-> None,
      inserted_chunks |-> None, error_message |-> Some(""),
      progress_percent |-> None]}

\* db_service.py:30-43 called with a job id of the caller's choice.
CreateJob ==
    /\ Len(jobs_collection) < MaxRecords
    /\ \E job_id \in Requests :
         jobs_collection' = create_upload_job(jobs_collection, job_id, <<"b">>,
                                              <<"Doc", ".PDF">>)
    /\ fn' = NoFn
    /\ UNCHANGED <<pc, req, local, files, removed, trace, gwVars, chatVars>>

\* db_service.py:45-71
UpdateJob ==
    /\ \E job_id \in Requests, a \in UpdateInputs :
         /\ jobs_collection' =
                update_job_status(jobs_collection, job_id, a.status,
                                  a.collection_name, a.inserted_chunks,
                                  a.error_message, a.progress_percent)
         /\ fn' = [op |-> "update_job_status", job_id |-> job_id, args |-> a]
    /\ UNCHANGED <<pc, req, local, files, removed, trace, gwVars, chatVars>>

\* db_service.py:73-78
GetJob ==
    /\ \E job_id \in Requests :
         fn' = [op |-> "get_job_status", job_id |-> job_id,
                result |-> get_job_status(jobs_collection, job_id)]
    /\ UNCHANGED <<appVars, gwVars, chatVars>>

JobStoreNext == CreateJob \/ UpdateJob \/ GetJob

JobStoreSpec == Init /\ [][JobStoreNext]_vars

\* ------------------------------------ the chat service (chat_service.py)
\* A save_message that inserts the item twice.
save_message_twice(coll, user_id, human, assistant) ==
    coll \o << [user_id |-> user_id, human |-> human, assistant |-> assistant],
               [user_id |-> user_id, human |-> human, assistant |-> assistant] >>

\* db_service.py:12-20
save_message(coll, user_id, human, assistant) ==
    Append(coll, [user_id |-> user_id, human |-> human, assistant |-> assistant])

StoreErrorMsg == "UnexpectedResponse"
LlmErrorMsg == "ResourceExhausted"
\* What llm.invoke(messages).content gives (chat_service.py:72).
Responses == {"r1", "r2"}
ChatUsers == {<<"a", ".">>, <<"b">>}

AskRaise(k, e) == [asks EXCEPT ![k].pc = "raised", ![k].err = e]

\* api.py:178-183 and chat_service.py:22: a chat request enters ask; chat
\* requests are numbered in the order they arrive.
ask_begin(k) ==
    /\ asks[k].pc = "idle"
    /\ IF k = 1 THEN TRUE ELSE asks[k - 1].pc # "idle"
    /\ \E u \in ChatUsers, q \in Queries :
         asks' = [asks EXCEPT ![k].pc = "L35", ![k].user_id = u, ![k].query = q]
    /\ UNCHANGED <<appVars, gwVars, chat_collection, fn>>

\* chat_service.py:35: retrieve on the chat service's own VectorStore, with
\* the default top_k of the request; the store may be unreachable.
ask_retrieve(k) ==
    /\ asks[k].pc = "L35"
    /\ \E storeOk \in BOOLEAN :
         LET end == RunCall(NewRetrieve("chat", asks[k].user_id, asks[k].query,
                                        TopK), Shared)
         IN IF ~storeOk
            THEN /\ asks' = AskRaise(k, StoreErrorMsg)
                 /\ UNCHANGED <<collections, points, user_stores>>
            ELSE /\ asks' = IF end.call.err # "none"
                             THEN AskRaise(k, end.call.err)
                             ELSE [asks EXCEPT ![k].pc = "L38",
                                               ![k].docs = end.call.docs]
                 /\ collections' = end.sh.collections
                 /\ points' = end.sh.points
                 /\ user_stores' = end.sh.stores
    /\ UNCHANGED <<appVars, calls, ncalls, chat_collection, fn>>

\* chat_service.py:38: get_chat_history (db_service.py:22-27) reads the
\* user's messages, or raises.
ask_history(k) ==
    /\ asks[k].pc = "L38"
    /\ \E dbOk \in BOOLEAN :
         asks' = IF dbOk THEN [asks EXCEPT ![k].pc = "L72"]
                 ELSE AskRaise(k, DbErrorMsg)
    /\ UNCHANGED <<appVars, gwVars, chat_collection, fn>>

\* chat_service.py:62-72: build the messages and call the model.
ask_invoke(k) ==
    /\ asks[k].pc = "L72"
    /\ \E out \in Responses \cup {LlmErrorMsg} :
         asks' = IF out \in Responses
                 THEN [asks EXCEPT ![k].pc = "L74", ![k].response = Some(out)]
                 ELSE AskRaise(k, out)
    /\ UNCHANGED <<appVars, gwVars, chat_collection, fn>>

\* chat_service.py:74-76: save the exchange and return the result.
ask_save(k) ==
    /\ asks[k].pc = "L74"
    /\ \E dbOk \in BOOLEAN :
         IF dbOk
         THEN LET response == CHOOSE x \in asks[k].response : TRUE
              IN /\ chat_collection' =
                       save_message(chat_collection, asks[k].user_id,
                                    asks[k].query, response)
                 /\ asks' = [asks EXCEPT
                       ![k].pc = "done",
                       ![k].saved = Len(chat_collection') - Len(chat_collection),
                       ![k].answer = Some([answer |-> response,
                                           source_documents |-> asks[k].docs])]
         ELSE /\ asks' = AskRaise(k, DbErrorMsg)
              /\ UNCHANGED chat_collection
    /\ UNCHANGED <<appVars, gwVars, fn>>

\* An ingestion for user u that ran to its end on the api instance
\* (vector_store.py:54-74).
ingest(u) ==
    /\ LET end == RunCall(NewCall("add_documents", "api", u, MaxChunks), Shared)
       IN /\ collections' = end.sh.collections
          /\ points' = end.sh.points
          /\ user_stores' = end.sh.stores
    /\ UNCHANGED <<appVars, calls, ncalls, chatVars, fn>>

ChatNext ==
    \/ \E k \in ChatRequests :
          \/ ask_begin(k)
          \/ ask_retrieve(k)
          \/ ask_history(k)
          \/ ask_invoke(k)
          \/ ask_save(k)
    \/ \E u \in ChatUsers : ingest(u)

ChatSpec == Init /\ [][ChatNext]_vars

\* ------------------------------- the pure functions applied to drawn inputs
Chars == Alnum \cup {"_", "-", ".", " "}
RECURSIVE StringsOf(_)
StringsOf(n) ==
    IF n = 0 THEN {<<>>}
    ELSE LET shorter == StringsOf(n - 1)
         IN shorter \cup {Append(s, c) : s \in shorter, c \in Chars}
Strings == StringsOf(MaxIdLen)

\* vector_store.py:19-22 applied to two user ids, the first of them twice.
CollectionNameOf ==
    /\ fn = NoFn
    /\ \E u, v \in Strings :
         fn' = [op |-> "get_user_collection_name", u |-> u, v |-> v,
                name_u |-> get_user_collection_name(u),
                again_u |-> get_user_collection_name(u),
                name_v |-> get_user_collection_name(v)]
    /\ UNCHANGED <<appVars, gwVars, chatVars>>

\* The user id each endpoint hands to the gateway for the user_id string it
\* received: upload_pdf strips it (api.py:119), chat_endpoint and
\* delete_user_collection pass it on as it is (api.py:183, 192).
upload_pdf_user_id(s) == Strip(s)
chat_endpoint_user_id(s) == s
delete_user_collection_user_id(s) == s

\* The collection each endpoint works on for one user_id string.
EndpointTargets ==
    /\ fn = NoFn
    /\ \E s \in Strings :
         fn' = [op |-> "endpoints", user_id |-> s,
                accepted |-> Accepted(<<"Doc", ".PDF">>, s),
                upload |-> get_user_collection_name(upload_pdf_user_id(s)),
                chat |-> get_user_collection_name(chat_endpoint_user_id(s)),
                delete |-> get_user_collection_name(
                               delete_user_collection_user_id(s))]
    /\ UNCHANGED <<appVars, gwVars, chatVars>>

FnNext == CollectionNameOf \/ EndpointTargets

FnSpec == Init /\ [][FnNext]_vars

\* ===================================================== claims on Spec
Job(r) == CHOOSE d \in get_job_status(jobs_collection, r) : TRUE
Terminal == {"completed", "failed"}
IsPrefix(a, b) == Len(a) <= Len(b) /\ \A i \in 1..Len(a) : a[i] = b[i]

\* The failures the environment can cause in a job: the job store, the
\* extraction, the vector store.
EnvErrors == {DbErrorMsg, "NotFound", "AlreadyExists", "KeyError"} \cup ExtractErrors
EnvFailed(r) == local[r].escaped \/ local[r].exc \cap EnvErrors # {}

\* C1 as stated: the values a job's status takes, in order, are a prefix of
\* queued, processing, completed or of queued, processing, failed.
C1_StatusPrefix ==
    \A r \in Requests :
        \/ IsPrefix(trace[r], <<"queued", "processing", "completed">>)
        \/ IsPrefix(trace[r], <<"queued", "processing", "failed">>)

\* C1 amended: the values a job's status takes, in order, are a prefix of
\* queued, processing, completed or of queued, processing, failed, or are
\* queued, failed (processing is skipped when its write fails); so queued
\* never returns and nothing follows completed or failed.
C1_StatusMonotone ==
    \A r \in Requests :
        \/ IsPrefix(trace[r], <<"queued", "processing", "completed">>)
        \/ IsPrefix(trace[r], <<"queued", "processing", "failed">>)
        \/ trace[r] = <<"queued", "failed">>

\* A finished job whose status went queued, processing, failed.
C1_Witness ==
    \E r \in Requests :
        pc[r] = "done" /\ trace[r] = <<"queued", "processing", "failed">>

\* C2: when the background task of a job has ended, the job's status is
\* completed or failed (no job is left queued or processing).
C2_TerminalWhenDone ==
    \A r \in Requests : pc[r] = "done" => StatusOf(jobs_collection, r) \in Terminal

\* C3: a job whose extraction and stores did not fail ends completed, with
\* progress 100, the user's collection name and the number of chunks.
C3_CompletesOnSuccess ==
    \A r \in Requests :
        (pc[r] = "done" /\ ~EnvFailed(r)) =>
            /\ Job(r).status = "completed"
            /\ Job(r).progress_percent = Some(Progress100)
            /\ Job(r).collection_name =
                   Some(get_user_collection_name(req[r].user_id))
            /\ Job(r).inserted_chunks = local[r].documents

\* C4: a job in which a step raised ends failed with that error's message as
\* error_message, and the exception does not leave process_pdf_upload.
C4_FailureRecorded ==
    \A r \in Requests :
        (pc[r] = "done" /\ local[r].exc # None) =>
            /\ Job(r).status = "failed"
            /\ Job(r).error_message = local[r].exc
            /\ ~local[r].escaped

\* The batches of at most b that n chunks are upserted in.
RECURSIVE ExpectedBatches(_, _)
ExpectedBatches(n, b) ==
    IF n = 0 THEN <<>>
    ELSE IF n <= b THEN <<n>>
    ELSE <<b>> \o ExpectedBatches(n - b, b)

\* C7: once add_documents(user_id, documents, batch_size) has been called on
\* N >= 1 chunks and the stores did not fail, it has issued the upserts
\* ceil(N/B) batches of at most B and returned N.
C7_BatchedUpserts ==
    \A r \in Requests :
        (/\ pc[r] \in {"L67", "L73", "L85", "L92", "done"}
         /\ ~EnvFailed(r)
         /\ local[r].documents \notin {None, Some(0)}) =>
            /\ \A n \in local[r].documents :
                   local[r].batches = ExpectedBatches(n, BatchSize)
            /\ local[r].inserted = local[r].documents

\* C10: when the handling of an upload that staged a temp file has ended (the
\* job ran to its end, or the submission failed with 500), the file is gone
\* and was removed exactly once.
C10_TempFileRemovedOnce ==
    \A r \in Requests :
        pc[r] \in {"done", "error500"} => (r \notin files /\ removed[r] = 1)

\* C12: in every job record, collection_name and inserted_chunks are present
\* only when the status is completed, and error_message is present only when
\* the status is failed.
C12_OutcomeFields ==
    \A i \in 1..Len(jobs_collection) :
        LET j == jobs_collection[i]
        IN /\ j.collection_name # None => j.status = "completed"
           /\ j.inserted_chunks # None => j.status = "completed"
           /\ j.error_message # None => j.status = "failed"

\* A job whose failure has been recorded with its message, after the task ended.
C12_Witness ==
    \E r \in Requests :
        /\ pc[r] = "done"
        /\ get_job_status(jobs_collection, r) # None
        /\ Job(r).error_message = Some(TypeErrorMsg)
        /\ Job(r).status = "failed"

IsBlank(u) == \A i \in 1..Len(u) : u[i] = " "
NamesPdf(fname) == fname[2] \in {".pdf", ".PDF"}

\* C17: an upload whose filename does not end in .pdf (in any letter case),
\* or whose user id is empty or only whitespace, is rejected at once: it has
\* no job record, no temporary file, and its background task never runs.
C17_RejectedBeforeAnyEffect ==
    \A r \in Requests :
        pc[r] # "idle" /\ (~NamesPdf(req[r].filename) \/ IsBlank(req[r].form_user_id))
        => /\ pc[r] = "rejected400"
           /\ get_job_status(jobs_collection, r) = None
           /\ r \notin files
           /\ removed[r] = 0
           /\ local[r] = NoLocal
           /\ trace[r] = <<>>

\* A PDF upload with a user id of one space has been rejected while an
\* earlier upload was accepted.
C17_Witness ==
    \E r, q \in Requests :
        /\ pc[r] = "rejected400"
        /\ req[r].filename = <<"Doc", ".PDF">>
        /\ req[r].form_user_id = <<" ">>
        /\ pc[q] \in TaskPcs \cup {"done"}

HasJob(r) == get_job_status(jobs_collection, r) # None
Progress(r) == CHOOSE p \in Job(r).progress_percent : TRUE
Milestones == <<Progress0, Progress10, Progress30, Progress90, Progress100>>
NextMilestone(p, q) ==
    \E i \in 1..(Len(Milestones) - 1) : Milestones[i] = p /\ Milestones[i + 1] = q

\* C22: a job's progress is within 0..100, is 0 at creation, never decreases,
\* moves only from one milestone to the next (0, 10, 30, 90, 100), is 100
\* exactly when the status is completed, and a job whose extraction and
\* stores did not fail has taken every milestone when its task ends.
C22_ProgressMilestones ==
    /\ [](\A r \in Requests : HasJob(r) =>
             /\ Job(r).progress_percent # None
             /\ Progress(r) \in 0..100
             /\ (Job(r).status = "completed") <=> (Progress(r) = Progress100)
             /\ (pc[r] = "done" /\ ~EnvFailed(r)) => Progress(r) = Progress100)
    /\ [][\A r \in Requests :
             /\ (~HasJob(r) /\ HasJob(r)') => Progress(r)' = Progress0
             /\ (HasJob(r) /\ HasJob(r)') =>
                   \/ Progress(r)' = Progress(r)
                   \/ NextMilestone(Progress(r), Progress(r)')]_vars

BeforeTask == {"idle", "L127", "L136", "L139", "rejected400", "error500"}

\* C24: the job record is created with status queued, and the response is
\* returned, before the background task does anything: while upload_pdf has
\* not returned the response, the job (if created) is queued at progress 0
\* and the task has no local state; once the task runs or has ended, the
\* record exists and its first status was queued.
C24_RecordBeforeTask ==
    \A r \in Requests :
        /\ pc[r] \in BeforeTask =>
              /\ local[r] = NoLocal
              /\ removed[r] = 0
              /\ trace[r] \in {<<>>, <<"queued">>}
              /\ HasJob(r) => Job(r).status = "queued" /\ Progress(r) = Progress0
        /\ pc[r] \in TaskPcs \cup {"done"} =>
              /\ HasJob(r)
              /\ trace[r] # <<>>
              /\ trace[r][1] = "queued"

\* A background task has written processing to its job and is at the
\* extraction.
C24_Witness ==
    \E r \in Requests :
        /\ pc[r] = "L61"
        /\ HasJob(r)
        /\ trace[r] = <<"queued", "processing">>

\* C25: whenever a job record has status completed, the collection named in
\* its collection_name exists in the vector store (Spec has no deletes).
C25_CompletedHasCollection ==
    \A r \in Requests :
        HasJob(r) /\ Job(r).status = "completed" =>
            /\ Job(r).collection_name # None
            /\ Job(r).collection_name \subseteq collections

\* No job record is ever completed: the case of C25 does not occur.
C25_NeverCompleted ==
    \A r \in Requests : HasJob(r) => Job(r).status # "completed"

\* ================================================ claims on GatewaySpec
Ended(t, op) == calls[t].op = op /\ calls[t].pc = "done"
\* The matches a finished retrieve returned.
Matches(t) == UNION {{ds[i].chunk : i \in 1..Len(ds)} : ds \in calls[t].docs}

\* C5 as stated: every match retrieve(u, ...) returns is a chunk upserted by
\* an ingestion for u.
C5_OwnChunksOnly ==
    \A t \in Threads :
        Ended(t, "retrieve") => \A d \in Matches(t) : d.owner = calls[t].user_id

\* C5 amended: every match retrieve(u, ...) returns is a chunk upserted by an
\* ingestion for a user id whose sanitised form is that of u; a chunk
\* ingested for v is never returned to u when the sanitised forms differ.
C5_OwnCollectionOnly ==
    \A t \in Threads :
        Ended(t, "retrieve") =>
            \A d \in Matches(t) : safe_user_id(d.owner) = safe_user_id(calls[t].user_id)

\* A retrieve that returned a match while a user with another sanitised id
\* has chunks in the store.
C5_Witness ==
    \E t \in Threads :
        /\ Ended(t, "retrieve")
        /\ Matches(t) # {}
        /\ \E name \in collections :
             \E d \in points[name] :
                 safe_user_id(d.owner) # safe_user_id(calls[t].user_id)

\* C6: no ingestion fails because another ingestion created the user's
\* collection first.
C6_DuplicateCreateTolerated ==
    \A t \in Threads : Ended(t, "add_documents") => calls[t].err # "AlreadyExists"

\* C8: a retrieve that finds the user's collection absent returns an empty
\* match list and raises no error.
C8_AbsentGivesEmpty ==
    \A t \in Threads :
        (Ended(t, "retrieve") /\ calls[t].absent) =>
            (calls[t].docs = Some(<<>>) /\ calls[t].err = "none")

\* A retrieve that found the collection absent while its instance still
\* caches a handle for the user.
C8_Witness ==
    \E t \in Threads :
        /\ Ended(t, "retrieve")
        /\ calls[t].absent
        /\ calls[t].user_id \in user_stores[calls[t].inst]

\* C9: when a delete(user_id) that found the collection present returns, with
\* no other gateway call in progress, it returns true, the collection is
\* absent and no instance's handle cache holds the user.
C9_DeleteClearsEverything ==
    [][\A t \in Threads :
         (/\ calls[t].pc # "done"
          /\ calls'[t].pc = "done"
          /\ calls'[t].op = "delete_user_collection"
          /\ calls'[t].err = "none"
          /\ ~calls'[t].absent
          /\ \A o \in Threads \ {t} : Free(o)) =>
             /\ calls'[t].deleted = Some(TRUE)
             /\ get_user_collection_name(calls'[t].user_id) \notin collections'
             /\ \A i \in Instances : calls'[t].user_id \notin user_stores'[i]]_vars
\* The list a finished retrieve returned.
Returned(t) == CHOOSE ds \in calls[t].docs : TRUE

\* C13: retrieve(userId, query, topK) returns at most topK matches, each with
\* a score at or above the threshold 0.6, the best match first: the scores
\* are the store's for that query and never increase along the list.
C13_RankedAboveThreshold ==
    \A t \in Threads :
        Ended(t, "retrieve") /\ calls[t].docs # None =>
            LET ds == Returned(t)
            IN /\ Len(ds) <= calls[t].top_k
               /\ \A i \in 1..Len(ds) :
                    /\ ds[i].score >= ScoreThreshold
                    /\ ds[i].score = ScoreOf(calls[t].query, ds[i].chunk)
               /\ \A i, j \in 1..Len(ds) : i < j => ds[i].score >= ds[j].score
               /\ \A i, j \in 1..Len(ds) : i # j => ds[i].chunk # ds[j].chunk

\* A retrieve that returned two matches of different scores, the second of
\* them ingested before the first.
C13_Witness ==
    \E t \in Threads :
        /\ Ended(t, "retrieve")
        /\ calls[t].docs # None
        /\ Len(Returned(t)) = 2
        /\ Returned(t)[1].score > Returned(t)[2].score
        /\ Returned(t)[1].chunk.owner = <<"a", "_">>

\* C16: when the documents produce no chunks, add_documents returns 0 in its
\* first step: it lists no collections, creates none, upserts nothing and
\* leaves the handle caches as they are.
C16_NoChunksNoStoreCall ==
    [][\A t \in Threads :
          /\ calls[t].op = "add_documents"
          /\ calls[t].pc = "add_split"
          /\ calls[t].n = 0
          /\ calls'[t] # calls[t]
          => /\ calls'[t].pc = "done"
             /\ calls'[t].count = Some(0)
             /\ calls'[t].err = "none"
             /\ calls'[t].batches = <<>>
             /\ collections' = collections
             /\ points' = points
             /\ user_stores' = user_stores]_vars

\* An add_documents without chunks has returned 0 for a user who has no
\* collection and no cached handle.
C16_Witness ==
    \E t \in Threads :
        /\ Ended(t, "add_documents")
        /\ calls[t].n = 0
        /\ calls[t].count = Some(0)
        /\ get_user_collection_name(calls[t].user_id) \notin collections
        /\ calls[t].user_id \notin user_stores["api"]

\* C19: an ingestion for user u that starts after a delete(u) has returned
\* finds or makes u's collection before it upserts: when it upserts, the
\* collection exists. Taken for an ingestion that began with no other call
\* in progress, that has run alone since, and for a user whose collection
\* name no other user shares.
C19_CollectionEnsuredAfterDelete ==
    [][\A t \in Threads :
          /\ calls[t].op = "add_documents"
          /\ calls[t].after_delete > 0
          /\ ncalls = calls[t].after_delete
          /\ \A v \in UserIds : v # calls[t].user_id =>
                get_user_collection_name(v) # get_user_collection_name(calls[t].user_id)
          /\ calls[t].pc = "add_upsert"
          /\ calls'[t] # calls[t]
          => get_user_collection_name(calls[t].user_id) \in collections]_vars

\* C20: only an ingestion creates a collection: while no add_documents call
\* is in progress, no step of a retrieve or of a delete adds a collection to
\* the store.
C20_OnlyIngestionCreates ==
    [][(\A o \in Threads : calls[o].op = "add_documents" => calls[o].pc = "done")
          => collections' \subseteq collections]_vars

\* C21: no access to the handle cache fails, whatever the interleaving of
\* ingestions, retrievals and deletions: the lookup that follows the
\* membership check finds the key, and the removal finds the key it removes.
C21_CacheAccessNeverFails ==
    \A t \in Threads : calls[t].err # "KeyError"

\* ============================================== claims on JobStoreSpec
OptionalFields == {"collection_name", "inserted_chunks", "error_message", "progress_percent"}
KeptFields == {"job_id", "user_id", "filename"}
Field(rec, f) ==
    CASE f = "collection_name" -> rec.collection_name
      [] f = "inserted_chunks" -> rec.inserted_chunks
      [] f = "error_message" -> rec.error_message
      [] f = "progress_percent" -> rec.progress_percent
      [] f = "job_id" -> rec.job_id
      [] f = "user_id" -> rec.user_id
      [] f = "filename" -> rec.filename
      [] OTHER -> rec.status

\* C23: update(jobId, status, fields...) writes the status and exactly the
\* optional fields that were supplied, leaves the other fields of that job
\* and every other job as they were, and for an unknown jobId changes
\* nothing and creates no record.
C23_UpdateWritesSuppliedFields ==
    [][fn'.op = "update_job_status" =>
         LET a == fn'.args
             i == FindOne(jobs_collection, fn'.job_id)
         IN IF i = 0
            THEN jobs_collection' = jobs_collection
            ELSE /\ Len(jobs_collection') = Len(jobs_collection)
                 /\ \A k \in 1..Len(jobs_collection) :
                       k # i => jobs_collection'[k] = jobs_collection[k]
                 /\ jobs_collection'[i].status = a.status
                 /\ \A f \in KeptFields :
                       Field(jobs_collection'[i], f) = Field(jobs_collection[i], f)
                 /\ \A f \in OptionalFields :
                       Field(jobs_collection'[i], f) =
                           IF Field(a, f) # None THEN Field(a, f)
                           ELSE Field(jobs_collection[i], f)]_vars

\* C11: create(jobId, ...) fails when a record with that job id exists and
\* leaves the store as it was, so that no state holds two job records with
\* the same job id.
C11_OneRecordPerJobId ==
    \A i, j \in 1..Len(jobs_collection) :
        jobs_collection[i].job_id = jobs_collection[j].job_id => i = j

\* ================================================= claims on ChatSpec
EntriesOf(u) == {i \in 1..Len(chat_collection) : chat_collection[i].user_id = u}
Answered(u) == {k \in ChatRequests : asks[k].pc = "done" /\ asks[k].user_id = u}

\* C18: an ask that fails in retrieval, in the history read or in the model
\* call ends with that error, returns no answer and appends nothing to the
\* chat history; an ask that succeeds appends exactly one entry, with its
\* query and its answer, for its user only.
C18_AnswerAndHistoryTogether ==
    /\ \A k \in ChatRequests :
          /\ asks[k].pc = "raised" =>
                asks[k].err # "none" /\ asks[k].answer = None /\ asks[k].saved = 0
          /\ asks[k].pc = "done" =>
                /\ asks[k].err = "none"
                /\ asks[k].saved = 1
                /\ \E a \in asks[k].answer :
                      /\ asks[k].response = Some(a.answer)
                      /\ \E i \in EntriesOf(asks[k].user_id) :
                            /\ chat_collection[i].human = asks[k].query
                            /\ chat_collection[i].assistant = a.answer
          /\ asks[k].pc \notin {"raised", "done"} =>
                asks[k].answer = None /\ asks[k].saved = 0
    /\ \A u \in UserIds : Cardinality(EntriesOf(u)) = Cardinality(Answered(u))

\* One chat request was answered with matches from the user's collection and
\* another, for the same user, failed in the model call after its retrieval.
C18_Witness ==
    \E k, j \in ChatRequests :
        /\ asks[k].pc = "done"
        /\ asks[k].docs # Some(<<>>)
        /\ asks[j].pc = "raised"
        /\ asks[j].err = LlmErrorMsg
        /\ asks[j].user_id = asks[k].user_id
        /\ Len(chat_collection) = 1

\* =================================================== claims on FnSpec
SafeChars == Alnum \cup {"_", "-"}
OnlySafeChars(u) == \A i \in 1..Len(u) : u[i] \in SafeChars

\* C14: the collection name is a function of the user id (the same id gives
\* the same name on every call), and two distinct ids made only of
\* alphanumerics, '_' and '-' get distinct names.
C14_NameInjectiveOnSafeIds ==
    fn.op = "get_user_collection_name" =>
        /\ fn.again_u = fn.name_u
        /\ fn.u = fn.v => fn.name_u = fn.name_v
        /\ fn.u # fn.v /\ OnlySafeChars(fn.u) /\ OnlySafeChars(fn.v)
               => fn.name_u # fn.name_v

\* Two distinct safe ids with the same first character were given names.
C14_Witness ==
    /\ fn.op = "get_user_collection_name"
    /\ fn.u = <<"a", "-">>
    /\ fn.v = <<"a", "_">>
    /\ fn.name_u # fn.name_v

\* C15: for every user id string the upload endpoint accepts, the chat and
\* delete endpoints called with that string work on the collection the
\* ingestion for that string wrote to.
C15_EndpointsAgreeOnCollection ==
    fn.op = "endpoints" /\ fn.accepted =>
        fn.chat = fn.upload /\ fn.delete = fn.upload

====
